---- MODULE Spec2Model ----
(***************************************************************************)
(* Model of the provisioning service client DeviceEnrollment: the request *)
(* shaping and dispatch of createOrUpdate, get, delete, bulkOperation and  *)
(* the query page function, against a transport (RestApiClient) that       *)
(* completes each request asynchronously with success or failure.          *)
(***************************************************************************)
EXTENDS Naturals, Integers, Sequences, FiniteSets, TLC

(* ------------------------------------------------------------------ *)
(* Bounds                                                              *)
(* ------------------------------------------------------------------ *)

\* number of public calls made on the client in one behaviour
MaxCalls == 2

\* number of advances of one query cursor in one behaviour
MaxAdvances == 5

\* number of clients constructed in one behaviour
MaxClients == 2

(* ------------------------------------------------------------------ *)
(* JavaScript values                                                   *)
(* ------------------------------------------------------------------ *)

\* a string value is a sequence of one-character strings
Undef == [t |-> "undefined", v |-> "undefined"]
Null == [t |-> "null", v |-> "null"]
Str(s) == [t |-> "string", v |-> s]
Num(n) == [t |-> "number", v |-> n]
Bool(b) == [t |-> "boolean", v |-> b]
Fn(h) == [t |-> "function", v |-> h]
Obj(f) == [t |-> "object", v |-> f]

\* JavaScript truthiness, as used by every `if (!x)` / `if (x)` of the client
Truthy(x) ==
  CASE x.t = "undefined" -> FALSE
    [] x.t = "null" -> FALSE
    [] x.t = "string" -> x.v # <<>>
    [] x.t = "number" -> x.v # 0
    [] x.t = "boolean" -> x.v
    [] OTHER -> TRUE

\* property read x.name: undefined when the property is not there
Prop(x, name) ==
  IF x.t = "object" /\ name \in DOMAIN x.v THEN x.v[name] ELSE Undef

\* encodeURIComponent on one character: unreserved characters are kept,
\* every other character is percent-encoded
EncodeChar(c) ==
  CASE c = "/" -> "%2F"
    [] c = "?" -> "%3F"
    [] c = " " -> "%20"
    [] OTHER -> c

RECURSIVE encodeURIComponent(_)
encodeURIComponent(s) ==
  IF s = <<>> THEN "" ELSE EncodeChar(Head(s)) \o encodeURIComponent(Tail(s))

\* the empty header set {}
NoHeaders == [n \in {} |-> ""]

(* ------------------------------------------------------------------ *)
(* DeviceEnrollment: fields                                            *)
(* ------------------------------------------------------------------ *)

enrollmentGroupsPrefix == "/enrollmentGroups/"
enrollmentsPrefix == "/enrollments/"
registrationsPrefix == "/registrations/"

versionQueryString == "?api-version=2017-08-31-preview"

\* the prefixes the public create-or-update, get/delete/query methods pass
CreatePrefixes == {enrollmentsPrefix, enrollmentGroupsPrefix}
Prefixes == {enrollmentsPrefix, enrollmentGroupsPrefix, registrationsPrefix}

(* ------------------------------------------------------------------ *)
(* Argument resolution and request building                            *)
(* ------------------------------------------------------------------ *)

\* what executeApiCall receives: method, path, headers, body
Request(method, path, headers, body) ==
  [method |-> method, path |-> path, headers |-> headers, body |-> body]

\* the result of resolving a create-or-update or get call:
\* thrown is "none" or the class of the error thrown synchronously
Resolved(thrown, id) == [thrown |-> thrown, id |-> id]

\* _createOrUpdate reading whichever identifier field the entity has
CreateOrUpdateId_AnyKind(endpointPrefix, enrollment) ==
  IF Truthy(Prop(enrollment, "enrollmentGroupId"))
    THEN Prop(enrollment, "enrollmentGroupId")
    ELSE Prop(enrollment, "registrationId")

\* _createOrUpdate: the identifier field read for the endpoint prefix
CreateOrUpdateId(endpointPrefix, enrollment) ==
  IF endpointPrefix = enrollmentGroupsPrefix
    THEN Prop(enrollment, "enrollmentGroupId")
    ELSE Prop(enrollment, "registrationId")

\* _createOrUpdate: argument checks
CreateOrUpdateResolve(endpointPrefix, enrollment) ==
  IF ~Truthy(enrollment)
    THEN Resolved("ReferenceError", Undef)
    ELSE IF ~Truthy(CreateOrUpdateId(endpointPrefix, enrollment))
      THEN Resolved("ArgumentError", Undef)
      ELSE Resolved("none", CreateOrUpdateId(endpointPrefix, enrollment))

\* headers of a request that carries a body (create-or-update, bulk, query)
BodyHeaders ==
  ("Accept" :> "application/json")
    @@ ("Content-Type" :> "application/json; charset=utf-8")

\* _createOrUpdate: the PUT request
CreateOrUpdateRequest(endpointPrefix, id, enrollment) ==
  Request("PUT",
          endpointPrefix \o encodeURIComponent(id.v) \o versionQueryString,
          BodyHeaders, enrollment)

\* _get rejecting an empty identifier as an invalid argument
GetResolve_InvalidArgument(id) ==
  IF ~Truthy(id) THEN Resolved("ArgumentError", Undef) ELSE Resolved("none", id)

\* _get: argument check
GetResolve(id) ==
  IF ~Truthy(id) THEN Resolved("ReferenceError", Undef) ELSE Resolved("none", id)

\* _get sending an empty header set
GetHeaders_Empty == NoHeaders

\* _get: the headers
GetHeaders == ("Accept" :> "application/json")

\* _get: the GET request
GetRequest(endpointPrefix, id) ==
  Request("GET",
          endpointPrefix \o encodeURIComponent(id.v) \o versionQueryString,
          GetHeaders, Null)

\* bulkOperation: argument check
BulkResolve(bulkOperation) ==
  IF ~Truthy(bulkOperation)
    THEN Resolved("ReferenceError", Undef)
    ELSE Resolved("none", Undef)

\* bulkOperation: the path
BulkPath == enrollmentsPrefix \o versionQueryString

\* bulkOperation: the POST request
BulkRequest(bulkOperation) == Request("POST", BulkPath, BodyHeaders, bulkOperation)

\* the result of resolving a delete call
DeleteResolved(thrown, id, ifMatch, suppliedCallback) ==
  [thrown |-> thrown, id |-> id, ifMatch |-> ifMatch,
   suppliedCallback |-> suppliedCallback]

DeleteThrow(class) == DeleteResolved(class, Undef, Undef, Undef)

\* _delete, first argument a string, taking the entity tag from the wrong variable
DeleteResolveString_TagFromId(id, etagOrCallback, deleteCallback) ==
  IF ~Truthy(etagOrCallback)
    THEN DeleteResolved("none", id, Undef, Undef)
    ELSE IF etagOrCallback.t = "string"
      THEN IF ~Truthy(deleteCallback)
        THEN DeleteResolved("none", id, id, Undef)
        ELSE IF deleteCallback.t # "function"
          THEN DeleteThrow("ArgumentError")
          ELSE DeleteResolved("none", id, id, deleteCallback)
      ELSE IF etagOrCallback.t = "function"
        THEN DeleteResolved("none", id, Undef, etagOrCallback)
        ELSE DeleteThrow("ArgumentError")

\* _delete, first argument a string
DeleteResolveString(id, etagOrCallback, deleteCallback) ==
  IF ~Truthy(etagOrCallback)
    THEN DeleteResolved("none", id, Undef, Undef)
    ELSE IF etagOrCallback.t = "string"
      THEN IF ~Truthy(deleteCallback)
        THEN DeleteResolved("none", id, etagOrCallback, Undef)
        ELSE IF deleteCallback.t # "function"
          THEN DeleteThrow("ArgumentError")
          ELSE DeleteResolved("none", id, etagOrCallback, deleteCallback)
      ELSE IF etagOrCallback.t = "function"
        THEN DeleteResolved("none", id, Undef, etagOrCallback)
        ELSE DeleteThrow("ArgumentError")

\* _delete reading whichever identifier field the entity has
DeleteEntityId_AnyKind(endpointPrefix, entity) ==
  IF Truthy(Prop(entity, "registrationId"))
    THEN Prop(entity, "registrationId")
    ELSE Prop(entity, "enrollmentGroupId")

\* _delete, first argument not a string: the identifier field of the prefix
DeleteEntityId(endpointPrefix, entity) ==
  IF endpointPrefix = enrollmentsPrefix
    THEN Prop(entity, "registrationId")
    ELSE IF endpointPrefix = enrollmentGroupsPrefix
      THEN Prop(entity, "enrollmentGroupId")
      ELSE IF endpointPrefix = registrationsPrefix
        THEN Prop(entity, "registrationId")
        ELSE Undef

\* _delete, first argument not a string
DeleteResolveEntity(endpointPrefix, entity, etagOrCallback) ==
  IF ~Truthy(DeleteEntityId(endpointPrefix, entity))
    THEN DeleteThrow("ArgumentError")
    ELSE IF Truthy(etagOrCallback) /\ etagOrCallback.t # "function"
      THEN DeleteThrow("ArgumentError")
      ELSE DeleteResolved("none",
             DeleteEntityId(endpointPrefix, entity),
             IF Truthy(Prop(entity, "etag")) THEN Prop(entity, "etag") ELSE Undef,
             IF Truthy(etagOrCallback) THEN etagOrCallback ELSE Undef)

\* _delete: the whole argument resolution
DeleteResolve(endpointPrefix, enrollmentOrIdOrRegistration, etagOrCallback, deleteCallback) ==
  IF ~Truthy(enrollmentOrIdOrRegistration)
    THEN DeleteThrow("ReferenceError")
    ELSE IF enrollmentOrIdOrRegistration.t = "string"
      THEN DeleteResolveString(enrollmentOrIdOrRegistration, etagOrCallback, deleteCallback)
      ELSE DeleteResolveEntity(endpointPrefix, enrollmentOrIdOrRegistration, etagOrCallback)

\* _delete: the headers, {} plus If-Match when an entity tag was resolved
DeleteHeaders(ifMatch) ==
  IF Truthy(ifMatch) THEN ("If-Match" :> ifMatch.v) ELSE NoHeaders

\* _delete: the DELETE request
DeleteRequest(endpointPrefix, id, ifMatch) ==
  Request("DELETE",
          endpointPrefix \o encodeURIComponent(id.v) \o versionQueryString,
          DeleteHeaders(ifMatch), Null)

\* _getEnrollFunc never adding the continuation header
QueryHeaders_NoContinuation(continuationToken, pageSize) ==
  BodyHeaders
    @@ (IF Truthy(pageSize)
          THEN ("x-ms-max-item-count" :> pageSize.v) ELSE NoHeaders)

\* _getEnrollFunc: the headers of one query page
QueryHeaders(continuationToken, pageSize) ==
  BodyHeaders
    @@ (IF Truthy(continuationToken)
          THEN ("x-ms-continuation" :> continuationToken.v) ELSE NoHeaders)
    @@ (IF Truthy(pageSize)
          THEN ("x-ms-max-item-count" :> pageSize.v) ELSE NoHeaders)

\* _getEnrollFunc: the POST request of one query page
QueryRequest(prefix, querySpecification, pageSize, continuationToken) ==
  Request("POST", prefix \o "query" \o versionQueryString,
          QueryHeaders(continuationToken, pageSize), querySpecification)

(* ------------------------------------------------------------------ *)
(* Completion of a request: what the callback given to executeApiCall  *)
(* does with the transport's (err, result, response)                   *)
(* ------------------------------------------------------------------ *)

\* one call of a function value f with the argument list args
Invocation(f, args) == [f |-> f, args |-> args]

\* _createOrUpdate calling the callback without testing it
CreateOrUpdateDone_Unchecked(callback, res) ==
  IF res.err # "null"
    THEN <<Invocation(callback, <<res.err>>)>>
    ELSE <<Invocation(callback, <<"null", res.result, res.response>>)>>

\* _createOrUpdate: the callback passed to executeApiCall
CreateOrUpdateDone(callback, res) ==
  IF Truthy(callback)
    THEN IF res.err # "null"
      THEN <<Invocation(callback, <<res.err>>)>>
      ELSE <<Invocation(callback, <<"null", res.result, res.response>>)>>
    ELSE <<>>

\* bulkOperation: the callback passed to executeApiCall
BulkDone(callback, res) ==
  IF Truthy(callback)
    THEN IF res.err # "null"
      THEN <<Invocation(callback, <<res.err>>)>>
      ELSE <<Invocation(callback, <<"null", res.result, res.response>>)>>
    ELSE <<>>

\* _delete: the callback passed to executeApiCall
DeleteDone(suppliedCallback, res) ==
  IF Truthy(suppliedCallback)
    THEN IF res.err # "null"
      THEN <<Invocation(suppliedCallback, <<res.err>>)>>
      ELSE <<Invocation(suppliedCallback, <<"null">>)>>
    ELSE <<>>

\* _get: the callback passed to executeApiCall (getCallback is not checked)
GetDone(getCallback, res) ==
  IF res.err # "null"
    THEN <<Invocation(getCallback, <<res.err>>)>>
    ELSE <<Invocation(getCallback, <<"null", res.result, res.response>>)>>

\* _getEnrollFunc: done is handed to executeApiCall as it is
QueryDone(done, res) ==
  <<Invocation(done, <<res.err, res.result, res.response>>)>>

Done(op, handler, res) ==
  CASE op = "createOrUpdate" -> CreateOrUpdateDone(handler, res)
    [] op = "bulkOperation" -> BulkDone(handler, res)
    [] op = "delete" -> DeleteDone(handler, res)
    [] op = "get" -> GetDone(handler, res)
    [] op = "query" -> QueryDone(handler, res)

(* ------------------------------------------------------------------ *)
(* Inputs                                                              *)
(* ------------------------------------------------------------------ *)

r1 == <<"r", "1">>
g1 == <<"g", "1">>
reserved == <<"a", "/", "b", "?", " ">>
abc == <<"a", "b", "c">>
x == <<"x">>
t1 == <<"t", "1">>
t2 == <<"t", "2">>

\* identifiers passed as strings: empty, plain, with reserved characters
StringIds == {Str(<<>>), Str(r1), Str(reserved)}

\* entity objects: with the identifier field of one kind or none, with or without etag
Entities ==
  { Obj([registrationId |-> Str(r1)]),
    Obj([registrationId |-> Str(r1), etag |-> Str(x)]),
    Obj([enrollmentGroupId |-> Str(g1)]),
    Obj([enrollmentGroupId |-> Str(g1), etag |-> Str(x)]),
    Obj([registrationId |-> Str(<<>>), enrollmentGroupId |-> Str(g1), etag |-> Str(<<>>)]),
    Obj([etag |-> Str(x)]) }

\* the entities create-or-update is called with: those above and one
\* whose identifier holds reserved characters
Enrollments == Entities \cup { Obj([registrationId |-> Str(reserved)]) }

\* second argument of a delete
SecondArgs ==
  { Undef, Str(<<>>), Str(abc), Fn("h1"),
    Num(0), Bool(FALSE), Num(5), Obj([etag |-> Str(x)]) }

\* third argument of a delete
ThirdArgs == { Undef, Fn("h2"), Num(0), Num(7) }

\* the argument lists of a delete: by identifier with every second argument
\* (a third argument that is not a function only after a string, the one
\* place _delete reads it), by entity, and with the first argument missing
DeleteArgs ==
  { <<a1, a2, a3>> : a1 \in {Str(r1), Str(reserved)}, a2 \in {Str(<<>>), Str(abc)}, a3 \in ThirdArgs }
    \cup { <<a1, a2, a3>> : a1 \in {Str(r1), Str(reserved)}, a2 \in SecondArgs, a3 \in {Undef, Fn("h2")} }
    \cup { <<a1, a2, Undef>> : a1 \in Entities, a2 \in {Undef, Fn("h1"), Str(abc), Num(0)} }
    \cup { <<a1, a2, Undef>> : a1 \in {Undef, Str(<<>>)}, a2 \in {Undef, Fn("h1")} }

\* completion handlers of create-or-update, get and bulkOperation
Handlers == { Undef, Fn("h1") }

BulkOperations == { Undef, Obj([mode |-> Str(<<"c">>)]) }

QuerySpecifications == { Obj([query |-> Str(<<"*">>)]) }
PageSizes == { Undef, Num(0), Num(2), Num(0 - 1) }
ContinuationTokens == { Undef, Str(t1) }

\* what the transport reports for its i-th request: success with a payload,
\* failure, failure with a payload; the values name the request
TransportResultsOf(i) ==
  { [err |-> "null", result |-> "R" \o ToString(i), response |-> "H" \o ToString(i)],
    [err |-> "E" \o ToString(i), result |-> "undefined", response |-> "undefined"],
    [err |-> "E" \o ToString(i), result |-> "R" \o ToString(i),
     response |-> "H" \o ToString(i)] }

(* ------------------------------------------------------------------ *)
(* State                                                               *)
(* ------------------------------------------------------------------ *)

VARIABLES
  calls,      \* the public calls made so far: op, prefix, args, thrown
  executed,   \* the calls of restApiClient.executeApiCall, in order
  callbacks,  \* the calls of functions supplied by the caller, in order
  uncaught,   \* errors thrown inside a callback passed to executeApiCall
  cursor,     \* the query cursor made by a createQuery method, if any
  advances,   \* the advances of the cursor, in order, with their outcome
  constructions,  \* the calls of the DeviceEnrollment constructor, in order
  built       \* the calls of `new RestApiClient`, in order

vars == <<calls, executed, callbacks, uncaught, cursor, advances, constructions, built>>

\* what a query cursor and the constructor own
queryVars == <<cursor, advances>>
clientVars == <<constructions, built>>

\* constructor checking the host and not the shared access signature
ConstructorThrown_HostOnly(config) ==
  IF ~Truthy(config)
    THEN "ReferenceError"
    ELSE IF ~Truthy(Prop(config, "host")) THEN "ArgumentError" ELSE "none"

\* constructor: the error thrown for a configuration, "none" if it is accepted
ConstructorThrown(config) ==
  IF ~Truthy(config)
    THEN "ReferenceError"
    ELSE IF ~Truthy(Prop(config, "host")) \/ ~Truthy(Prop(config, "sharedAccessSignature"))
      THEN "ArgumentError"
      ELSE "none"

\* constructor: restApiClient || new RestApiClient(config, ...)
UsesSupplied(restApiClient) == Truthy(restApiClient)

\* one call of the constructor: what it threw and, when it returned, the
\* instance's _config and _restApiClient
Construction(config, restApiClient) ==
  LET thrown == ConstructorThrown(config) IN
    [ config |-> config, restApiClient |-> restApiClient, thrown |-> thrown,
      instance |-> thrown = "none",
      _config |-> IF thrown = "none" THEN config ELSE Undef,
      _restApiClient |->
        IF thrown # "none" THEN "none"
        ELSE IF UsesSupplied(restApiClient) THEN "supplied" ELSE "default" ]

host == <<"h">>
sas == <<"s">>

\* configurations: absent, without host or credential (missing or empty), complete
Configs ==
  { Undef, Null,
    Obj([sharedAccessSignature |-> Str(sas)]),
    Obj([host |-> Str(host)]),
    Obj([host |-> Str(<<>>), sharedAccessSignature |-> Str(sas)]),
    Obj([host |-> Str(host), sharedAccessSignature |-> Str(<<>>)]),
    Obj([host |-> Str(host), sharedAccessSignature |-> Str(sas)]) }

ValidConfig == Obj([host |-> Str(host), sharedAccessSignature |-> Str(sas)])

\* the optional second argument of the constructor
RestApiClients == { Undef, Obj([executeApiCall |-> Fn("executeApiCall")]) }
SuppliedClient == Obj([executeApiCall |-> Fn("executeApiCall")])

NoCursor ==
  [ state |-> "none", busy |-> FALSE, token |-> Undef, prefix |-> "",
    querySpecification |-> Undef, pageSize |-> Undef ]

\* no client constructed yet
InitConstruct ==
  /\ calls = <<>>
  /\ executed = <<>>
  /\ callbacks = <<>>
  /\ uncaught = <<>>
  /\ cursor = NoCursor
  /\ advances = <<>>
  /\ constructions = <<>>
  /\ built = <<>>

\* one client constructed from a complete configuration and a supplied transport
Init ==
  /\ calls = <<>>
  /\ executed = <<>>
  /\ callbacks = <<>>
  /\ uncaught = <<>>
  /\ cursor = NoCursor
  /\ advances = <<>>
  /\ constructions = <<Construction(ValidConfig, SuppliedClient)>>
  /\ built = <<>>

\* new DeviceEnrollment(config, restApiClient)
Construct ==
  \E config \in Configs, restApiClient \in RestApiClients :
    /\ Len(constructions) < MaxClients
    /\ constructions' = Append(constructions, Construction(config, restApiClient))
    /\ built' =
         IF ConstructorThrown(config) = "none" /\ ~UsesSupplied(restApiClient)
           THEN Append(built, config)
           ELSE built
    /\ UNCHANGED <<calls, executed, callbacks, uncaught, queryVars>>

\* a public call keeping its handler in a field of the client that every
\* pending completion reads
Issue_SharedCallback(op, prefix, args, thrown, request, handler) ==
  /\ calls' = Append(calls, [op |-> op, prefix |-> prefix, args |-> args, thrown |-> thrown])
  /\ executed' =
       IF thrown = "none"
         THEN Append([i \in 1..Len(executed) |->
                        IF executed[i].status = "pending"
                          THEN [executed[i] EXCEPT !.handler = handler]
                          ELSE executed[i]],
                [call |-> Len(calls) + 1, op |-> op, request |-> request,
                 handler |-> handler, status |-> "pending",
                 result |-> [err |-> "null", result |-> "undefined", response |-> "undefined"]])
         ELSE executed
  /\ UNCHANGED <<callbacks, uncaught>>

\* a public call: it throws, or it calls executeApiCall once and returns
Issue(op, prefix, args, thrown, request, handler) ==
  /\ calls' = Append(calls, [op |-> op, prefix |-> prefix, args |-> args, thrown |-> thrown])
  /\ executed' =
       IF thrown = "none"
         THEN Append(executed,
                [call |-> Len(calls) + 1, op |-> op, request |-> request,
                 handler |-> handler, status |-> "pending",
                 result |-> [err |-> "null", result |-> "undefined", response |-> "undefined"]])
         ELSE executed
  /\ UNCHANGED <<callbacks, uncaught>>

CreateOrUpdate ==
  \E prefix \in CreatePrefixes, enrollment \in Enrollments \cup {Undef}, callback \in Handlers :
    LET r == CreateOrUpdateResolve(prefix, enrollment) IN
      /\ Len(calls) < MaxCalls
      /\ Issue("createOrUpdate", prefix, <<enrollment, callback>>, r.thrown,
               CreateOrUpdateRequest(prefix, r.id, enrollment), callback)
      /\ UNCHANGED <<queryVars, clientVars>>

Get ==
  \E prefix \in Prefixes, id \in StringIds \cup {Undef}, getCallback \in Handlers :
    LET r == GetResolve(id) IN
      /\ Len(calls) < MaxCalls
      /\ Issue("get", prefix, <<id, getCallback>>, r.thrown,
               GetRequest(prefix, r.id), getCallback)
      /\ UNCHANGED <<queryVars, clientVars>>

Delete ==
  \E prefix \in Prefixes, args \in DeleteArgs :
    LET r == DeleteResolve(prefix, args[1], args[2], args[3]) IN
      /\ Len(calls) < MaxCalls
      /\ Issue("delete", prefix, args, r.thrown,
               DeleteRequest(prefix, r.id, r.ifMatch), r.suppliedCallback)
      /\ UNCHANGED <<queryVars, clientVars>>

BulkOperation ==
  \E bulkOperation \in BulkOperations, callback \in Handlers :
    LET r == BulkResolve(bulkOperation) IN
      /\ Len(calls) < MaxCalls
      /\ Issue("bulkOperation", enrollmentsPrefix, <<bulkOperation, callback>>, r.thrown,
               BulkRequest(bulkOperation), callback)
      /\ UNCHANGED <<queryVars, clientVars>>

\* one call of the function _getEnrollFunc returns
QueryPage ==
  \E prefix \in Prefixes, querySpecification \in QuerySpecifications,
     pageSize \in PageSizes, continuationToken \in ContinuationTokens :
    /\ Len(calls) < MaxCalls
    /\ Issue("query", prefix, <<querySpecification, pageSize, continuationToken>>, "none",
             QueryRequest(prefix, querySpecification, pageSize, continuationToken),
             Fn("done"))
    /\ UNCHANGED <<queryVars, clientVars>>

\* calling the invocations of one completion in order: a value that is not
\* a function cannot be called, the TypeError ends the completion
RECURSIVE Called(_)
Called(invs) ==
  IF invs = <<>> THEN <<>>
  ELSE IF Head(invs).f.t # "function" THEN <<>>
  ELSE <<Head(invs)>> \o Called(Tail(invs))

Throws(invs) == \E k \in 1..Len(invs) : invs[k].f.t # "function"

\* the transport completes request i with res
Complete ==
  \E i \in 1..Len(executed) : \E res \in TransportResultsOf(i) :
    /\ executed[i].status = "pending"
    /\ executed' = [executed EXCEPT ![i].status = "done", ![i].result = res]
    /\ LET invs == Done(executed[i].op, executed[i].handler, res) IN
         /\ callbacks' = callbacks \o
              [k \in 1..Len(Called(invs)) |->
                 [call |-> executed[i].call, exec |-> i,
                  handler |-> Called(invs)[k].f.v, args |-> Called(invs)[k].args]]
         /\ uncaught' =
              IF Throws(invs)
                THEN Append(uncaught, [call |-> executed[i].call, error |-> "TypeError"])
                ELSE uncaught
    /\ UNCHANGED <<calls, queryVars, clientVars>>

(* ------------------------------------------------------------------ *)
(* The query cursor (ProvisioningServiceQuery) driven over the page    *)
(* function of _getEnrollFunc                                          *)
(* ------------------------------------------------------------------ *)

\* the continuation token a page response carries in its header, if any
ContinuationOf(response) ==
  CASE response = "H+t1" -> Str(t1)
    [] response = "H+t2" -> Str(t2)
    [] OTHER -> Undef

\* what the registry answers to a page request: a page with a continuation
\* token, a last page without one, a failure
PageResults ==
  { [err |-> "null", result |-> "R1", response |-> "H+t1"],
    [err |-> "null", result |-> "R1", response |-> "H+t2"],
    [err |-> "null", result |-> "R1", response |-> "H"],
    [err |-> "E1", result |-> "undefined", response |-> "undefined"] }

\* a cursor as a createQuery method returns it: no token, not exhausted
NewCursor(prefix, querySpecification, pageSize) ==
  [ state |-> "fresh", busy |-> FALSE, token |-> Undef, prefix |-> prefix,
    querySpecification |-> querySpecification, pageSize |-> pageSize ]

\* the cursor after a page request completed: on success it stores the
\* returned token, or clears it and is exhausted; a failure leaves it as it was
CursorAfterPage(c, res) ==
  IF res.err # "null"
    THEN [c EXCEPT !.busy = FALSE]
    ELSE [c EXCEPT !.busy = FALSE,
                   !.token = ContinuationOf(res.response),
                   !.state = IF Truthy(ContinuationOf(res.response))
                               THEN "more" ELSE "exhausted"]

\* the advance of the cursor that made request i
AdvanceOf(i) == CHOOSE a \in 1..Len(advances) : advances[a].exec = i

\* createQueryIndividualEnrollment, createQueryEnrollmentGroup,
\* createQueryDeviceRegistrationStatus
CreateQuery ==
  \E prefix \in Prefixes, querySpecification \in QuerySpecifications,
     pageSize \in PageSizes :
    /\ cursor.state = "none"
    /\ cursor' = NewCursor(prefix, querySpecification, pageSize)
    /\ UNCHANGED <<calls, executed, callbacks, uncaught, advances, clientVars>>

\* fetch next page: the cursor calls the page function with its token
Advance ==
  /\ cursor.state \in {"fresh", "more"}
  /\ ~cursor.busy
  /\ Len(advances) < MaxAdvances
  /\ Issue("query", cursor.prefix,
           <<cursor.querySpecification, cursor.pageSize, cursor.token>>, "none",
           QueryRequest(cursor.prefix, cursor.querySpecification,
                        cursor.pageSize, cursor.token),
           Fn("page"))
  /\ advances' = Append(advances,
       [sent |-> cursor.token, exec |-> Len(executed) + 1,
        outcome |-> "pending", returned |-> Undef])
  /\ cursor' = [cursor EXCEPT !.busy = TRUE]
  /\ UNCHANGED clientVars

\* fetch next page on an exhausted cursor: no more results, no request
AdvanceExhausted ==
  /\ cursor.state = "exhausted"
  /\ ~cursor.busy
  /\ Len(advances) < MaxAdvances
  /\ advances' = Append(advances,
       [sent |-> Undef, exec |-> 0, outcome |-> "terminal", returned |-> Undef])
  /\ UNCHANGED <<calls, executed, callbacks, uncaught, cursor, clientVars>>

\* the transport completes the page request i of the cursor with res
CompletePage ==
  \E i \in 1..Len(executed), res \in PageResults :
    /\ executed[i].status = "pending"
    /\ executed[i].op = "query"
    /\ executed' = [executed EXCEPT ![i].status = "done", ![i].result = res]
    /\ cursor' = CursorAfterPage(cursor, res)
    /\ advances' =
         [advances EXCEPT
            ![AdvanceOf(i)].outcome = IF res.err # "null" THEN "error" ELSE "page",
            ![AdvanceOf(i)].returned = ContinuationOf(res.response)]
    /\ callbacks' = Append(callbacks,
         [call |-> executed[i].call, exec |-> i, handler |-> "page",
          args |-> QueryDone(executed[i].handler, res)[1].args])
    /\ UNCHANGED <<calls, uncaught, clientVars>>

NextQuery ==
  \/ CreateQuery
  \/ Advance
  \/ AdvanceExhausted
  \/ CompletePage

\* one client, one query cursor driven one advance at a time
SpecQuery == Init /\ [][NextQuery]_vars

NextConstruct == Construct

\* the constructor called with every kind of configuration
SpecConstruct == InitConstruct /\ [][NextConstruct]_vars

Next ==
  \/ CreateOrUpdate
  \/ Get
  \/ Delete
  \/ BulkOperation
  \/ QueryPage
  \/ Complete

Spec == Init /\ [][Next]_vars

(* ------------------------------------------------------------------ *)
(* Properties                                                          *)
(* ------------------------------------------------------------------ *)

\* the calls of executeApiCall made by public call c
ExecOf(c) == { i \in 1..Len(executed) : executed[i].call = c }

\* the calls of caller-supplied functions made on behalf of public call c
CallbacksOf(c) == { k \in 1..Len(callbacks) : callbacks[k].call = c }

\* the argument list of the public call that made request i
ArgsOf(i) == calls[executed[i].call].args

HasHeader(i, name) == name \in DOMAIN executed[i].request.headers
Header(i, name) == executed[i].request.headers[name]

\* a value was passed for an argument: it is neither undefined nor null
Present(v) == v.t \notin {"undefined", "null"}

DeleteExecs == { i \in 1..Len(executed) : executed[i].op = "delete" }

\* C1 (as claimed): every DELETE carries If-Match exactly as the call shape
\* says: (string id, string etag) -> the second argument; (string id, anything
\* else) -> none; (entity with non-empty etag) -> that etag; (entity without
\* etag) -> none.
C1_DeleteIfMatchByShape ==
  \A i \in DeleteExecs :
    LET a == ArgsOf(i) IN
      /\ (a[1].t = "string" /\ a[2].t = "string")
           => (HasHeader(i, "If-Match") /\ Header(i, "If-Match") = a[2].v)
      /\ (a[1].t = "string" /\ a[2].t # "string") => ~HasHeader(i, "If-Match")
      /\ (a[1].t = "object" /\ Truthy(Prop(a[1], "etag")))
           => (HasHeader(i, "If-Match") /\ Header(i, "If-Match") = Prop(a[1], "etag").v)
      /\ (a[1].t = "object" /\ ~Truthy(Prop(a[1], "etag"))) => ~HasHeader(i, "If-Match")

\* C2 (as claimed): a delete whose first argument is a string never carries
\* an If-Match header.
C2_BareIdNeverConditional ==
  \A i \in DeleteExecs : ArgsOf(i)[1].t = "string" => ~HasHeader(i, "If-Match")

\* C2 (amended): a delete whose first argument is a string carries no
\* If-Match header when its second argument is not a string, carries
\* If-Match equal to the second argument when that is a non-empty string,
\* and never carries an If-Match of any other value.
C2_BareIdConditionalOnlyByStringTag ==
  \A i \in DeleteExecs :
    LET a == ArgsOf(i) IN
      a[1].t = "string" =>
        /\ a[2].t # "string" => ~HasHeader(i, "If-Match")
        /\ (a[2].t = "string" /\ a[2].v # <<>>) => HasHeader(i, "If-Match")
        /\ HasHeader(i, "If-Match") => (a[2].t = "string" /\ Header(i, "If-Match") = a[2].v)

\* C2 witness: one delete by identifier with a handler as second argument and
\* no If-Match, and one by identifier with a string tag carried as If-Match
C2_Witness ==
  /\ \E i \in DeleteExecs :
       ArgsOf(i)[1].t = "string" /\ ArgsOf(i)[2].t = "function" /\ ~HasHeader(i, "If-Match")
  /\ \E i \in DeleteExecs :
       ArgsOf(i)[1].t = "string" /\ ArgsOf(i)[2] = Str(abc)
         /\ HasHeader(i, "If-Match") /\ Header(i, "If-Match") = abc

\* the identifier field the resource kind of a prefix reads
KindField(prefix) ==
  IF prefix = enrollmentGroupsPrefix THEN "enrollmentGroupId" ELSE "registrationId"

\* the argument lists the argument rules reject: a missing entity, identifier
\* or operation set, an entity without the identifier field of its kind, a
\* second argument after an entity that is passed and is no function
FailsResolution(call) ==
  CASE call.op = "createOrUpdate" ->
         ~Truthy(call.args[1]) \/ ~Truthy(Prop(call.args[1], KindField(call.prefix)))
    [] call.op = "get" -> ~Truthy(call.args[1])
    [] call.op = "bulkOperation" -> ~Truthy(call.args[1])
    [] call.op = "delete" ->
         \/ ~Truthy(call.args[1])
         \/ /\ call.args[1].t = "object"
            /\ \/ ~Truthy(Prop(call.args[1], KindField(call.prefix)))
               \/ Truthy(call.args[2]) /\ call.args[2].t # "function"
    [] OTHER -> FALSE

\* C3: a call whose arguments fail resolution throws, and a call that throws
\* has made no call of executeApiCall and none of its handler, ever.
C3_ResolutionFailureIsLocal ==
  \A c \in 1..Len(calls) :
    /\ FailsResolution(calls[c]) => calls[c].thrown \in {"ReferenceError", "ArgumentError"}
    /\ calls[c].thrown # "none" => (ExecOf(c) = {} /\ CallbacksOf(c) = {})

\* C3 witness: a delete given an entity without the identifier field of the
\* kind, with a handler, has thrown ArgumentError, after which another call
\* was accepted and completed
C3_Witness ==
  /\ Len(calls) = 2
  /\ calls[1].op = "delete" /\ calls[1].args[1].t = "object"
  /\ ~Truthy(Prop(calls[1].args[1], KindField(calls[1].prefix)))
  /\ calls[1].args[2].t = "function"
  /\ calls[1].thrown = "ArgumentError"
  /\ Len(executed) = 1 /\ executed[1].status = "done"

\* C4 (as claimed): a get with an empty identifier fails with ArgumentError
\* (invalid-argument).
C4_GetEmptyIdInvalidArgument ==
  \A c \in 1..Len(calls) :
    (calls[c].op = "get" /\ calls[c].args[1] = Str(<<>>)) => calls[c].thrown = "ArgumentError"

\* C4 (amended): a get with an empty identifier fails with ReferenceError
\* (missing-argument), for each of the three resource kinds, and issues no
\* request.
C4_GetEmptyIdMissingArgument ==
  \A c \in 1..Len(calls) :
    (calls[c].op = "get" /\ calls[c].args[1] = Str(<<>>))
      => (calls[c].thrown = "ReferenceError" /\ ExecOf(c) = {})

\* C4 witness: gets with the empty identifier on two different kinds
C4_Witness ==
  /\ Len(calls) = 2
  /\ \A c \in {1, 2} : calls[c].op = "get" /\ calls[c].args[1] = Str(<<>>)
                         /\ calls[c].thrown = "ReferenceError"
  /\ calls[1].prefix # calls[2].prefix

\* C5: create-or-update throws ReferenceError when the entity is absent and
\* ArgumentError when the entity is there and the identifier field of the
\* kind (enrollmentGroupId for groups, registrationId for enrollments) is
\* empty, whatever the other kind's field holds.
C5_CreateOrUpdateArgumentErrors ==
  \A c \in 1..Len(calls) :
    calls[c].op = "createOrUpdate" =>
      LET e == calls[c].args[1] IN
        /\ ~Present(e) => calls[c].thrown = "ReferenceError"
        /\ (e.t = "object" /\ calls[c].prefix = enrollmentGroupsPrefix
              /\ ~Truthy(Prop(e, "enrollmentGroupId")))
             => calls[c].thrown = "ArgumentError"
        /\ (e.t = "object" /\ calls[c].prefix = enrollmentsPrefix
              /\ ~Truthy(Prop(e, "registrationId")))
             => calls[c].thrown = "ArgumentError"

\* C5 witness: a group create-or-update given an entity that has only a
\* registrationId, and an enrollment create-or-update given one that has
\* only an enrollmentGroupId, both rejected with ArgumentError
C5_Witness ==
  /\ \E c \in 1..Len(calls) :
       /\ calls[c].op = "createOrUpdate" /\ calls[c].prefix = enrollmentGroupsPrefix
       /\ Truthy(Prop(calls[c].args[1], "registrationId"))
       /\ calls[c].thrown = "ArgumentError"
  /\ \E c \in 1..Len(calls) :
       /\ calls[c].op = "createOrUpdate" /\ calls[c].prefix = enrollmentsPrefix
       /\ Truthy(Prop(calls[c].args[1], "enrollmentGroupId"))
       /\ calls[c].thrown = "ArgumentError"

\* C6 (as claimed): in a delete by identifier, a second argument that is
\* passed and is neither a string nor a function throws ArgumentError, and
\* after a string second argument a third argument that is passed and is no
\* function throws ArgumentError; 0 and false count as passed.
C6_DeleteRejectsOtherTypes ==
  \A c \in 1..Len(calls) :
    (calls[c].op = "delete" /\ calls[c].args[1].t = "string" /\ Truthy(calls[c].args[1])) =>
      LET a == calls[c].args IN
        /\ (Present(a[2]) /\ a[2].t \notin {"string", "function"})
             => calls[c].thrown = "ArgumentError"
        /\ (a[2].t = "string" /\ Present(a[3]) /\ a[3].t # "function")
             => calls[c].thrown = "ArgumentError"

\* the handler the caller supplied in a position the signature allows
SuppliedHandler(call) ==
  CASE call.op = "delete" ->
         IF call.args[2].t = "function" THEN call.args[2]
         ELSE IF call.args[1].t = "string" /\ call.args[2].t = "string"
                   /\ call.args[3].t = "function" THEN call.args[3]
         ELSE Undef
    [] call.op = "query" -> Undef
    [] OTHER -> call.args[2]

\* the calls of the supplied handler made for request i, as argument lists
HandlerCalls(i) ==
  { k \in 1..Len(callbacks) : callbacks[k].exec = i }

\* C7 (as claimed): an accepted call makes exactly one call of
\* executeApiCall; nothing is thrown in a completion when a handler was
\* supplied; for create-or-update, get and bulkOperation a completed request
\* has called the supplied handler exactly once, with (error) on failure and
\* (null, result, response) on success; for delete a completed request has
\* called the supplied handler with (error) on failure and (null) on success
\* and with nothing else.
C7_TransportOutcomeReachesHandler ==
  /\ \A c \in 1..Len(calls) :
       calls[c].thrown = "none" => Cardinality(ExecOf(c)) = 1
  /\ \A i \in 1..Len(executed) :
       LET call == calls[executed[i].call]
           h == SuppliedHandler(call)
           res == executed[i].result
       IN (executed[i].status = "done" /\ h.t = "function") =>
            /\ \A u \in 1..Len(uncaught) : uncaught[u].call # executed[i].call
            /\ Cardinality(HandlerCalls(i)) = 1
            /\ \A k \in HandlerCalls(i) :
                 /\ callbacks[k].handler = h.v
                 /\ callbacks[k].args =
                      IF res.err # "null" THEN <<res.err>>
                      ELSE IF call.op = "delete" THEN <<"null">>
                      ELSE <<"null", res.result, res.response>>

\* C8 (as claimed): every request handed to executeApiCall carries
\* Accept: application/json.
C8_EveryRequestAccepts ==
  \A i \in 1..Len(executed) :
    HasHeader(i, "Accept") /\ Header(i, "Accept") = "application/json"

\* C8 (amended): every PUT, GET and POST request handed to executeApiCall
\* carries Accept: application/json; a DELETE request carries no Accept
\* header (its only header is If-Match, when a tag was resolved).
C8_EveryRequestButDeleteAccepts ==
  \A i \in 1..Len(executed) :
    IF executed[i].request.method = "DELETE"
      THEN DOMAIN executed[i].request.headers \subseteq {"If-Match"}
      ELSE HasHeader(i, "Accept") /\ Header(i, "Accept") = "application/json"

\* C8 witness: a GET and a conditional DELETE were handed to the transport
C8_Witness ==
  /\ \E i \in 1..Len(executed) :
       executed[i].request.method = "GET" /\ HasHeader(i, "Accept")
  /\ \E i \in 1..Len(executed) :
       executed[i].request.method = "DELETE" /\ HasHeader(i, "If-Match")
         /\ ~HasHeader(i, "Accept")

\* C9 (as claimed): bulkOperation with an operation set makes exactly one
\* POST to /enrollments?api-version=<version> with the operation set as
\* body; without one it throws ReferenceError and makes no request.
C9_BulkPostsToCollection ==
  \A c \in 1..Len(calls) :
    calls[c].op = "bulkOperation" =>
      IF Present(calls[c].args[1])
        THEN /\ Cardinality(ExecOf(c)) = 1
             /\ \A i \in ExecOf(c) :
                  /\ executed[i].request.method = "POST"
                  /\ executed[i].request.path = "/enrollments" \o versionQueryString
                  /\ executed[i].request.body = calls[c].args[1]
        ELSE calls[c].thrown = "ReferenceError" /\ ExecOf(c) = {}

\* C10 (as claimed): a query page request is a POST to <prefix>query with
\* the query specification as body; x-ms-continuation is there exactly when
\* a token was passed and equals it; x-ms-max-item-count is there exactly
\* when the page size is a positive number.
C10_QueryPageHeaders ==
  \A i \in 1..Len(executed) :
    executed[i].op = "query" =>
      LET call == calls[executed[i].call]
          pageSize == call.args[2]
          token == call.args[3]
      IN /\ executed[i].request.method = "POST"
         /\ executed[i].request.path = call.prefix \o "query" \o versionQueryString
         /\ executed[i].request.body = call.args[1]
         /\ HasHeader(i, "x-ms-continuation") <=> Present(token)
         /\ Present(token) => Header(i, "x-ms-continuation") = token.v
         /\ HasHeader(i, "x-ms-max-item-count")
              <=> (IF pageSize.t = "number" THEN pageSize.v > 0 ELSE FALSE)

\* the advances of the cursor that made a page request
PageAdvances == { a \in 1..Len(advances) : advances[a].exec # 0 }

\* C11: a cursor driven one advance at a time sends no continuation header
\* on its first advance, sends on each later advance the token the previous
\* page returned, and once a page returned no token every further advance
\* reports no more results without a request; the only requests made are
\* those of the advances (so pages t1, t2, none take exactly three).
C11_CursorReplaysTokenThenStops ==
  /\ Len(executed) = Cardinality(PageAdvances)
  /\ \A a \in 1..Len(advances) :
       LET e == advances[a].exec IN
         /\ a = 1 => (e # 0 /\ ~HasHeader(e, "x-ms-continuation"))
         /\ (a > 1 /\ e # 0 /\ advances[a - 1].outcome = "page")
              => /\ HasHeader(e, "x-ms-continuation")
                 /\ Header(e, "x-ms-continuation") = advances[a - 1].returned.v
         /\ (\E b \in 1..(a - 1) :
               advances[b].outcome = "page" /\ ~Truthy(advances[b].returned))
              => (advances[a].outcome = "terminal" /\ e = 0)

\* C11 witness: pages with tokens t1, t2 and none were fetched by three
\* advances carrying no header, t1 and t2, and the fourth and fifth advance
\* reported no more results with three requests made in all
C11_Witness ==
  /\ Len(advances) = 5 /\ Len(executed) = 3
  /\ advances[1].returned = Str(t1) /\ advances[2].returned = Str(t2)
  /\ advances[3].outcome = "page" /\ advances[3].returned = Undef
  /\ ~HasHeader(1, "x-ms-continuation")
  /\ Header(2, "x-ms-continuation") = t1
  /\ Header(3, "x-ms-continuation") = t2
  /\ advances[4].outcome = "terminal" /\ advances[5].outcome = "terminal"

\* C12: the constructor throws ReferenceError for an absent configuration
\* and ArgumentError for one without host or without shared access
\* signature; a constructor that throws leaves no instance and has built no
\* RestApiClient; a supplied restApiClient is used and none is built.
C12_ConstructorValidatesFirst ==
  /\ \A c \in 1..Len(constructions) :
       LET k == constructions[c] IN
         /\ ~Present(k.config) => k.thrown = "ReferenceError"
         /\ (k.config.t = "object"
               /\ (~Truthy(Prop(k.config, "host"))
                     \/ ~Truthy(Prop(k.config, "sharedAccessSignature"))))
              => k.thrown = "ArgumentError"
         /\ k.thrown # "none" => (~k.instance /\ k._restApiClient = "none")
         /\ (k.thrown = "none" /\ Present(k.restApiClient))
              => (k.instance /\ k._restApiClient = "supplied")
  /\ Len(built) =
       Cardinality({ c \in 1..Len(constructions) :
                       constructions[c].thrown = "none"
                         /\ ~Present(constructions[c].restApiClient) })

\* C12 witness: a configuration without shared access signature was
\* rejected with ArgumentError although a restApiClient was supplied, an
\* absent one with ReferenceError, and no RestApiClient was built
C12_Witness ==
  /\ Len(constructions) = 2
  /\ constructions[1].config = Obj([host |-> Str(host)])
  /\ Present(constructions[1].restApiClient)
  /\ constructions[1].thrown = "ArgumentError" /\ ~constructions[1].instance
  /\ constructions[2].config = Undef
  /\ constructions[2].thrown = "ReferenceError" /\ ~constructions[2].instance
  /\ built = <<>>

\* the percent-encoded text of the identifiers the calls are made with
EncodedIdText(id) ==
  CASE id = r1 -> "r1"
    [] id = g1 -> "g1"
    [] id = reserved -> "a%2Fb%3F%20"

\* the accepted create-or-update calls
CreateOrUpdateCalls ==
  { c \in 1..Len(calls) : calls[c].op = "createOrUpdate" /\ calls[c].thrown = "none" }

\* C13: every accepted create-or-update call, with or without a handler and
\* whatever calls came before, makes exactly one PUT of the entity to
\* <prefix><encoded id>?api-version=2017-08-31-preview; calls with the same
\* entity make one request each, with the same path and body; without a
\* handler the completion calls nothing and raises nothing.
C13_CreateOrUpdateStateless ==
  /\ \A c \in CreateOrUpdateCalls :
       /\ Cardinality(ExecOf(c)) = 1
       /\ \A i \in ExecOf(c) :
            /\ executed[i].request.method = "PUT"
            /\ executed[i].request.path =
                 calls[c].prefix
                   \o EncodedIdText(Prop(calls[c].args[1], KindField(calls[c].prefix)).v)
                   \o "?api-version=2017-08-31-preview"
            /\ executed[i].request.body = calls[c].args[1]
            /\ (executed[i].status = "done" /\ ~Present(calls[c].args[2]))
                 => /\ CallbacksOf(c) = {}
                    /\ \A u \in 1..Len(uncaught) : uncaught[u].call # c
  /\ \A c \in CreateOrUpdateCalls, d \in CreateOrUpdateCalls :
       (c # d /\ calls[c].prefix = calls[d].prefix /\ calls[c].args[1] = calls[d].args[1])
         => /\ ExecOf(c) \cap ExecOf(d) = {}
            /\ \A i \in ExecOf(c), j \in ExecOf(d) :
                 executed[i].request = executed[j].request

\* C13 witness: the same entity, its identifier holding reserved characters,
\* was sent twice, first without and then with a handler; two PUTs with the
\* same encoded path and body were made and completed, and only the second
\* call's handler was called
C13_Witness ==
  /\ Len(calls) = 2 /\ Len(executed) = 2
  /\ calls[1].op = "createOrUpdate" /\ calls[2].op = "createOrUpdate"
  /\ calls[1].prefix = enrollmentsPrefix /\ calls[2].prefix = enrollmentsPrefix
  /\ calls[1].args = <<Obj([registrationId |-> Str(reserved)]), Undef>>
  /\ calls[2].args = <<Obj([registrationId |-> Str(reserved)]), Fn("h1")>>
  /\ executed[1].request.path = "/enrollments/a%2Fb%3F%20?api-version=2017-08-31-preview"
  /\ executed[1].request = executed[2].request
  /\ executed[1].status = "done" /\ executed[2].status = "done"
  /\ CallbacksOf(1) = {} /\ Cardinality(CallbacksOf(2)) = 1
  /\ uncaught = <<>>

\* C14 (as claimed): every accepted delete whose caller passed a handler
\* function as second argument, or as third argument after a string second
\* argument (the empty string included), has called that handler exactly
\* once, and nothing else, once the transport has completed its request.
C14_DeleteHandlerCalledOnce ==
  \A i \in DeleteExecs :
    LET h == SuppliedHandler(calls[executed[i].call]) IN
      (executed[i].status = "done" /\ h.t = "function")
        => /\ Cardinality(HandlerCalls(i)) = 1
           /\ \A k \in HandlerCalls(i) : callbacks[k].handler = h.v

\* C15 (as claimed): a get with a non-empty identifier and no handler does
\* not throw and makes its one GET request; once the transport has
\* completed it, with success or with failure, no function was called and
\* no error was raised for the call.
C15_GetWithoutHandlerLosesResult ==
  \A c \in 1..Len(calls) :
    (calls[c].op = "get" /\ Truthy(calls[c].args[1]) /\ ~Present(calls[c].args[2]))
      => /\ calls[c].thrown = "none"
         /\ Cardinality(ExecOf(c)) = 1
         /\ \A i \in ExecOf(c) :
              /\ executed[i].request.method = "GET"
              /\ executed[i].status = "done"
                   => /\ CallbacksOf(c) = {}
                      /\ \A u \in 1..Len(uncaught) : uncaught[u].call # c

\* the argument lists a completion of request i can hand to a handler
OwnOutcomes(i) ==
  LET res == executed[i].result IN
    { <<res.err>>, <<"null">>, <<"null", res.result, res.response>>,
      <<res.err, res.result, res.response>> }

\* one step leaves every call, handler call and request made so far as it
\* is, but for the one request the transport completes in this step
OthersUntouched ==
  /\ constructions' = constructions /\ built' = built
  /\ Len(calls') >= Len(calls) /\ Len(executed') >= Len(executed)
  /\ Len(callbacks') >= Len(callbacks)
  /\ \A c \in 1..Len(calls) : calls'[c] = calls[c]
  /\ \A k \in 1..Len(callbacks) : callbacks'[k] = callbacks[k]
  /\ Cardinality({ i \in 1..Len(executed) : executed'[i] # executed[i] }) <= 1
  /\ \A i \in 1..Len(executed) :
       \/ executed'[i] = executed[i]
       \/ /\ executed[i].status = "pending"
          /\ executed'[i] =
               [executed[i] EXCEPT !.status = "done", !.result = executed'[i].result]
          /\ \A k \in (Len(callbacks) + 1)..Len(callbacks') : callbacks'[k].exec = i

\* C16: with several operations in flight and completed in any order, every
\* handler call is made for a completed request of its own call, to the
\* handler that call supplied, with the outcome the transport reported for
\* that request and no other, at most once per request; equal calls make
\* equal requests whatever else is in flight; the client's configuration
\* and transport stay as constructed, and no step changes a call, a request
\* or a handler call of another operation.
C16_OperationsAreIndependent ==
  /\ [](/\ constructions = <<Construction(ValidConfig, SuppliedClient)>>
        /\ built = <<>>
        /\ \A k \in 1..Len(callbacks) :
             LET i == callbacks[k].exec
                 c == callbacks[k].call
             IN /\ executed[i].call = c /\ executed[i].status = "done"
                /\ executed[i].result \in TransportResultsOf(i)
                /\ callbacks[k].args \in OwnOutcomes(i)
                /\ callbacks[k].handler =
                     IF calls[c].op = "query" THEN "done"
                     ELSE SuppliedHandler(calls[c]).v
        /\ \A i \in 1..Len(executed) : Cardinality(HandlerCalls(i)) <= 1
        /\ \A i \in 1..Len(executed), j \in 1..Len(executed) :
             (calls[executed[i].call] = calls[executed[j].call])
               => /\ executed[i].request = executed[j].request
                  /\ executed[i].handler = executed[j].handler)
  /\ [][OthersUntouched]_vars

\* C16 witness: two operations with handlers were in flight together and
\* the transport completed the second before the first, one with success
\* and one with failure; each handler got the outcome of its own request
C16_Witness ==
  /\ Len(executed) = 2 /\ Len(callbacks) = 2
  /\ executed[1].op = "createOrUpdate" /\ executed[2].op = "delete"
  /\ executed[1].status = "done" /\ executed[2].status = "done"
  /\ callbacks[1].exec = 2 /\ callbacks[1].args = <<"E2">>
  /\ callbacks[2].exec = 1 /\ callbacks[2].args = <<"null", "R1", "H1">>

====
